---- MODULE Spec2Model ----
(***************************************************************************)
(* Model of max_random_baseline.py: the maximum order statistic of the     *)
(* Poisson binomial distribution (MaxOrderStatisticPoissonBinomial).       *)
(*                                                                         *)
(* Numbers are exact rationals <<num, den>> in lowest terms with den > 0.  *)
(* The probabilities drawn are dyadic (0, 1/4, 1/2, 3/4, 1); within the    *)
(* bounds below every product, power and sum of them fits a double, so     *)
(* pmf, F and expectation compute these exact values in floating point.    *)
(* The argument self.n * acc - 1 that p_value hands to F, and the product  *)
(* 1/self.n * expectation(t) that max_random_baseline returns, are         *)
(* computed in double precision, rounding as the doubles do.               *)
(*                                                                         *)
(*   n_in, arg   the arguments given to the constructor                    *)
(*   status      "new" before construction, then "ok" or the exception     *)
(*               that construction raised                                  *)
(*   self_n      self.n                                                    *)
(*   self_pb     self._pb, the Poisson binomial model built from ps        *)
(*   call        the last method called, with its arguments                *)
(*   result      the value it returned: a rational, and for                *)
(*               max_random_baseline the double [bits, exp]                *)
(*   cdf_calls   the arguments it passed to self._pb.cdf                   *)
(*   reused      whether the Engine had answered a call before that one    *)
(***************************************************************************)
EXTENDS Integers, Sequences, FiniteSets

VARIABLES n_in, arg, status, self_n, self_pb, call, result, cdf_calls, reused

vars == <<n_in, arg, status, self_n, self_pb, call, result, cdf_calls, reused>>

(***************************************************************************)
(* Bounds.                                                                 *)
(***************************************************************************)
MaxN == 3

MaxT == 2

MaxWideN == 49

(***************************************************************************)
(* Rational arithmetic.                                                    *)
(***************************************************************************)
Abs(a) == IF a < 0 THEN -a ELSE a

RECURSIVE GCD(_, _)
GCD(a, b) == IF b = 0 THEN a ELSE GCD(b, a % b)

LCM(a, b) == (a \div GCD(a, b)) * b

Norm(a, b) == LET g == GCD(Abs(a), b) IN <<a \div g, b \div g>>

Zero == <<0, 1>>

One == <<1, 1>>

Rat(i) == <<i, 1>>

Add(a, b) == LET l == LCM(a[2], b[2])
             IN  Norm(a[1] * (l \div a[2]) + b[1] * (l \div b[2]), l)

Sub(a, b) == Add(a, <<-b[1], b[2]>>)

Mul(a, b) == Norm(a[1] * b[1], a[2] * b[2])

Less(a, b) == LET l == LCM(a[2], b[2])
              IN  a[1] * (l \div a[2]) < b[1] * (l \div b[2])

Leq(a, b) == ~Less(b, a)

RECURSIVE Pow(_, _)
Pow(a, t) == IF t = 0 THEN One ELSE Mul(a, Pow(a, t - 1))

Floor(a) == a[1] \div a[2]

PyMin(a, b) == IF Less(b, a) THEN b ELSE a

PyMax(a, b) == IF Less(a, b) THEN b ELSE a

(***************************************************************************)
(* Double-precision arithmetic for the product self.n * acc - 1 of         *)
(* p_value.  A non-negative double is [bits, exp]: bits is the significand *)
(* in binary, most significant bit first and without leading zeros (empty  *)
(* for 0), and the value is bits * 2^exp.  Results are rounded to Prec     *)
(* bits, ties to even.  acc = <<a, b>> stands for the double a / b.        *)
(***************************************************************************)
Prec == 53

LimbLen == 15

FracLimbs == (Prec \div LimbLen) + 2

RECURSIVE IntBits(_)
IntBits(i) == IF i = 0 THEN << >> ELSE Append(IntBits(i \div 2), i % 2)

RECURSIVE BitsInt(_)
BitsInt(bs) ==
    IF Len(bs) = 0 THEN 0
    ELSE 2 * BitsInt(SubSeq(bs, 1, Len(bs) - 1)) + bs[Len(bs)]

AnyOne(bs) == \E i \in 1..Len(bs) : bs[i] = 1

Zeros(m) == [i \in 1..m |-> 0]

Strip(bs) ==
    IF ~AnyOne(bs) THEN << >>
    ELSE LET first == CHOOSE i \in 1..Len(bs) :
                          bs[i] = 1 /\ \A j \in 1..(i - 1) : bs[j] = 0
         IN  SubSeq(bs, first, Len(bs))

Inc(bs) ==
    IF \A i \in 1..Len(bs) : bs[i] = 1 THEN <<1>> \o Zeros(Len(bs))
    ELSE LET last == CHOOSE i \in 1..Len(bs) :
                         bs[i] = 0 /\ \A j \in (i + 1)..Len(bs) : bs[j] = 1
         IN  [i \in 1..Len(bs) |->
                 IF i < last THEN bs[i] ELSE IF i = last THEN 1 ELSE 0]

\* dir: 0 when the value was representable, 1 when rounded up, -1 when
\* rounded down.
Round(bs, exp, sticky) ==
    IF Len(bs) <= Prec
    THEN [bits |-> bs, exp |-> exp, dir |-> IF sticky THEN -1 ELSE 0]
    ELSE LET head  == SubSeq(bs, 1, Prec)
             guard == bs[Prec + 1]
             rest  == sticky \/ AnyOne(SubSeq(bs, Prec + 2, Len(bs)))
             up    == guard = 1 /\ (rest \/ head[Prec] = 1)
         IN  [bits |-> IF up THEN Inc(head) ELSE head,
              exp  |-> exp + Len(bs) - Prec,
              dir  |-> IF up THEN 1 ELSE IF guard = 1 \/ rest THEN -1 ELSE 0]

LimbBits(v) == [i \in 1..LimbLen |-> (v \div 2^(LimbLen - i)) % 2]

\* The first m limbs after the binary point of r / b, for 0 <= r < b, and
\* the remainder they leave.
RECURSIVE DivLimbs(_, _, _)
DivLimbs(r, b, m) ==
    IF m = 0 THEN << >>
    ELSE LimbBits((r * 2^LimbLen) \div b)
             \o DivLimbs((r * 2^LimbLen) % b, b, m - 1)

RECURSIVE DivRem(_, _, _)
DivRem(r, b, m) ==
    IF m = 0 THEN r ELSE DivRem((r * 2^LimbLen) % b, b, m - 1)

\* The double a / b, for integers a >= 0 and 1 <= b < 2^LimbLen.
FlDiv(a, b) ==
    Round(Strip(IntBits(a \div b) \o DivLimbs(a % b, b, FracLimbs)),
          -(FracLimbs * LimbLen), DivRem(a % b, b, FracLimbs) # 0)

\* bs as limbs of LimbLen bits, most significant first.
Limbs(bs) ==
    LET pad == Zeros((LimbLen - (Len(bs) % LimbLen)) % LimbLen) \o bs
    IN  [i \in 1..(Len(pad) \div LimbLen) |->
            BitsInt(SubSeq(pad, (i - 1) * LimbLen + 1, i * LimbLen))]

RECURSIVE MulLimbs(_, _, _)
MulLimbs(ls, n, carry) ==
    IF Len(ls) = 0 THEN IntBits(carry)
    ELSE LET v == ls[Len(ls)] * n + carry
         IN  MulLimbs(SubSeq(ls, 1, Len(ls) - 1), n, v \div 2^LimbLen)
                 \o LimbBits(v % 2^LimbLen)

RECURSIVE AddLimbs(_, _, _)
AddLimbs(la, lb, carry) ==
    IF Len(la) = 0 THEN IntBits(carry)
    ELSE LET v == la[Len(la)] + lb[Len(lb)] + carry
         IN  AddLimbs(SubSeq(la, 1, Len(la) - 1), SubSeq(lb, 1, Len(lb) - 1),
                      v \div 2^LimbLen)
                 \o LimbBits(v % 2^LimbLen)

AddBits(a, b) ==
    LET m == IF Len(a) < Len(b) THEN Len(b) ELSE Len(a)
    IN  AddLimbs(Limbs(Zeros(m - Len(a)) \o a), Limbs(Zeros(m - Len(b)) \o b), 0)

\* bs times an integer p >= 0, one limb of p at a time.
RECURSIVE BigMulInt(_, _)
BigMulInt(bs, p) ==
    IF p < 2^LimbLen THEN MulLimbs(Limbs(bs), p, 0)
    ELSE AddBits(MulLimbs(Limbs(bs), p % 2^LimbLen, 0),
                 BigMulInt(bs, p \div 2^LimbLen) \o Zeros(LimbLen))

\* The double n * x, for an integer n >= 0.
FlMulInt(n, x) == Round(Strip(BigMulInt(x.bits, n)), x.exp, FALSE)

\* x without trailing zero bits: the one [bits, exp] of its value.
FlValue(x) ==
    IF ~AnyOne(x.bits) THEN [bits |-> << >>, exp |-> 0]
    ELSE LET last == CHOOSE i \in 1..Len(x.bits) :
                         x.bits[i] = 1 /\ \A j \in (i + 1)..Len(x.bits) : x.bits[j] = 0
         IN  [bits |-> SubSeq(x.bits, 1, last), exp |-> x.exp + Len(x.bits) - last]

\* The double x * e, for a rational e = p / 2^k with p >= 0, which is a
\* double itself.
FlMul(x, e) ==
    LET k == CHOOSE i \in 0..30 : 2^i = e[2]
        y == FlMulInt(e[1], x)
    IN  FlValue([bits |-> y.bits, exp |-> y.exp - k])

\* The bits of x above and below the binary point.
IntPart(x) ==
    IF x.exp >= 0 THEN x.bits \o Zeros(x.exp)
    ELSE SubSeq(x.bits, 1, Len(x.bits) + x.exp)

FracPart(x) ==
    IF x.exp >= 0 THEN << >>
    ELSE [i \in 1..(-x.exp) |->
             IF i + Len(x.bits) + x.exp >= 1
             THEN x.bits[i + Len(x.bits) + x.exp] ELSE 0]

\* The double x + 1.
FlAddOne(x) ==
    Round(Strip(Inc(IntPart(x)) \o FracPart(x)),
          IF x.exp >= 0 THEN 0 ELSE x.exp, FALSE)

FlFloor(x) == BitsInt(IntPart(x))

FlCeil(x) == FlFloor(x) + (IF AnyOne(FracPart(x)) THEN 1 ELSE 0)

\* math.floor(n * acc - 1).  For n * acc >= 1 the subtraction is exact; for
\* 0 <= n * acc < 1 the difference lies in [-1, 0); for n * acc < 0 it is
\* -(|n * acc| + 1), rounded.
FloorNAccMinusOne(n, acc) ==
    LET x == FlMulInt(n, FlDiv(Abs(acc[1]), acc[2]))
    IN  IF acc[1] >= 0 THEN FlFloor(x) - 1 ELSE -FlCeil(FlAddOne(x))

(***************************************************************************)
(* The Poisson binomial distribution of the sum of independent Bernoulli   *)
(* trials with success probabilities ps (the PoiBin collaborator): built   *)
(* once from ps, it holds the point masses and the cumulative sums over    *)
(* the support 0..Len(ps).  Entry k + 1 of a list is the value at k.       *)
(***************************************************************************)
At(v, i) == IF i \in 1..Len(v) THEN v[i] ELSE Zero

Convolve(v, p, m) ==
    [i \in 1..m |-> Add(Mul(p, At(v, i - 1)), Mul(Sub(One, p), At(v, i)))]

RECURSIVE PmfList(_)
PmfList(ps) ==
    IF Len(ps) = 0 THEN <<One>>
    ELSE LET v == PmfList(SubSeq(ps, 1, Len(ps) - 1))
         IN  Convolve(v, ps[Len(ps)], Len(v) + 1)

RECURSIVE CumSum(_, _)
CumSum(v, m) ==
    IF m = 0 THEN << >>
    ELSE LET c == CumSum(v, m - 1)
         IN  Append(c, Add(At(c, m - 1), v[m]))

PoiBin(ps) ==
    LET pl == PmfList(ps)
    IN  [ps |-> ps, pmf_list |-> pl, cdf_list |-> CumSum(pl, Len(pl))]

PoiBinPmf(pb, k) == At(pb.pmf_list, k + 1)

PoiBinCdf(pb, k) ==
    IF k < 0 THEN Zero
    ELSE IF k > Len(pb.ps) THEN One
    ELSE pb.cdf_list[k + 1]

NoPoiBin == [ps |-> << >>, pmf_list |-> << >>, cdf_list |-> << >>]

(***************************************************************************)
(* Inputs.                                                                 *)
(***************************************************************************)
Probs == {Zero, <<1, 4>>, <<1, 2>>, <<3, 4>>, One}

Labels == {1, 2, 4}

Ns == 1..MaxN

Ts == 1..MaxT

Counts == (-1)..MaxN

NoItems == << >>

MkArg(tag, p, ps, items) == [tag |-> tag, p |-> p, ps |-> ps, items |-> items]

FloatArgs == {MkArg("float", p, << >>, NoItems) : p \in Probs}

IntArgs == {MkArg("int", Rat(i), << >>, NoItems) : i \in {0, 1}}

ListArgs == {MkArg("list", Zero, ps, NoItems) :
                ps \in UNION {[1..m -> Probs] : m \in 1..MaxN}}

DictItems ==
    {<< >>}
    \cup {<< <<l, c>> >> : l \in Labels, c \in Counts}
    \cup {<< <<l1, c1>>, <<l2, c2>> >> :
            <<l1, c1, l2, c2>> \in
                {q \in Labels \X Counts \X Labels \X Counts : q[1] # q[3]}}

DictArgs == {MkArg("dict", Zero, << >>, it) : it \in DictItems}

OtherArgs == {MkArg(tg, Zero, << >>, NoItems) : tg \in {"str", "tuple", "NoneType"}}

Args == FloatArgs \cup IntArgs \cup ListArgs \cup DictArgs \cup OtherArgs

Ks == {Norm(a, 2) : a \in (-2)..(2 * MaxN + 2)}

Accs == {Norm(a, b) : a \in 0..MaxN, b \in 1..MaxN}
        \cup {Norm(a, 2 * b) : a \in {-1, 1}, b \in 1..MaxN}

\* Engines beyond MaxN: m trials that always succeed and n - m that never
\* do, queried at the accuracies j / n and at 1 / (2 * n).
WideNs == (MaxN + 1)..MaxWideN

StepPs(n, m) == [i \in 1..n |-> IF i <= m THEN One ELSE Zero]

StepArgs(n) == {MkArg("list", Zero, StepPs(n, m), NoItems) : m \in 0..n}

StepAccs(n) == {Norm(j, n) : j \in 0..n} \cup {Norm(1, 2 * n)}

ReuseArgs ==
    {MkArg("float", <<1, 2>>, << >>, NoItems),
     MkArg("list", Zero, << <<1, 4>>, <<1, 2>> >>, NoItems),
     MkArg("dict", Zero, << >>, << <<2, 1>>, <<4, 2>> >>)}

(***************************************************************************)
(* _convert_arg_to_ps                                                      *)
(***************************************************************************)
Repeat(x, c) == [i \in 1..c |-> x]

RECURSIVE DictPs(_)
DictPs(items) ==
    IF Len(items) = 0 THEN << >>
    ELSE Repeat(Norm(1, items[1][1]), items[1][2]) \o DictPs(Tail(items))

\* Variant: any number, not only a float, is taken as the scalar probability.
convert_arg_to_ps_numbers(n, a) ==
    IF a.tag \in {"float", "int"} THEN [status |-> "ok", ps |-> Repeat(a.p, n)]
    ELSE IF a.tag = "dict"
    THEN LET ps == DictPs(a.items)
         IN  IF Len(ps) = n THEN [status |-> "ok", ps |-> ps]
             ELSE [status |-> "AssertionError", ps |-> << >>]
    ELSE IF a.tag = "list" THEN [status |-> "ok", ps |-> a.ps]
    ELSE [status |-> "SystemExit", ps |-> << >>]

convert_arg_to_ps(n, a) ==
    IF a.tag = "float" THEN [status |-> "ok", ps |-> Repeat(a.p, n)]
    ELSE IF a.tag = "dict"
    THEN LET ps == DictPs(a.items)
         IN  IF Len(ps) = n THEN [status |-> "ok", ps |-> ps]
             ELSE [status |-> "AssertionError", ps |-> << >>]
    ELSE IF a.tag = "list" THEN [status |-> "ok", ps |-> a.ps]
    ELSE [status |-> "SystemExit", ps |-> << >>]

(***************************************************************************)
(* Methods of MaxOrderStatisticPoissonBinomial.  self is [n, pb]; each     *)
(* method yields its return value and the arguments it passes to the       *)
(* model's cdf.                                                            *)
(***************************************************************************)
Ret(v, c) == [ret |-> v, cdf |-> c]

\* Variant: the point mass of one draw raised to t.
pmf_mass_power(self, kk, t) ==
    LET k   == Floor(kk)
        f_k == PoiBinPmf(self.pb, k)
    IN  Ret(Pow(f_k, t), {k})

pmf(self, kk, t) ==
    LET k   == Floor(kk)
        F_k == PoiBinCdf(self.pb, k)
        f_k == PoiBinPmf(self.pb, k)
    IN  Ret(Sub(Pow(F_k, t), Pow(Sub(F_k, f_k), t)), {k})

\* Variant: no early return for k < 0.
F_unguarded(self, kk, t) ==
    LET k == Floor(kk)
    IN  Ret(Pow(PoiBinCdf(self.pb, k), t), {k})

\* Variant: the upper tail of one draw in place of its cdf.
F_survival(self, kk, t) ==
    LET k == Floor(kk)
    IN  IF k < 0 THEN Ret(Zero, {})
        ELSE Ret(Pow(Sub(One, PoiBinCdf(self.pb, k)), t), {k})

F(self, kk, t) ==
    LET k == Floor(kk)
    IN  IF k < 0 THEN Ret(Zero, {})
        ELSE Ret(Pow(PoiBinCdf(self.pb, k), t), {k})

RECURSIVE expectation_loop(_, _, _)
expectation_loop(self, t, k) ==
    IF k < 0 THEN Zero
    ELSE Add(expectation_loop(self, t, k - 1),
             Mul(Rat(k), pmf(self, Rat(k), t).ret))

\* Variant: the loop stops at n - 1.
expectation_short(self, t) ==
    LET total == expectation_loop(self, t, self.n - 1)
    IN  Ret(PyMax(PyMin(total, Rat(self.n)), Zero), 0..(self.n - 1))

expectation(self, t) ==
    LET total == expectation_loop(self, t, self.n)
    IN  Ret(PyMax(PyMin(total, Rat(self.n)), Zero), 0..self.n)

\* 1/self.n is rounded, then its product with the expectation is.
max_random_baseline(self, t) ==
    LET e == expectation(self, t)
    IN  Ret(FlMul(FlDiv(1, self.n), e.ret), e.cdf)

\* Variant: F is evaluated at n * acc.
p_value_no_shift(self, acc, t) ==
    LET x == FlMulInt(self.n, FlDiv(Abs(acc[1]), acc[2]))
        f == F(self, Rat(IF acc[1] >= 0 THEN FlFloor(x) ELSE -FlCeil(x)), t)
    IN  Ret(Sub(One, f.ret), f.cdf)

\* F uses its argument only through math.floor, so it is given the floor of
\* the double self.n * acc - 1.
p_value(self, acc, t) ==
    LET f == F(self, Rat(FloorNAccMinusOne(self.n, acc)), t)
    IN  Ret(Sub(One, f.ret), f.cdf)

(***************************************************************************)
(* State machine.                                                          *)
(*                                                                         *)
(* Spec is the module-level entry points (max_random_baseline,             *)
(* max_random_p_value, max_random_F, max_random_pmf): an Engine is         *)
(* constructed from (n, arg) and queried once.  SpecReuse is the class     *)
(* used directly: one Engine, queried any number of times in any order.    *)
(* SpecPValue is max_random_p_value alone, over the Engines of Spec and    *)
(* over the wide Engines up to MaxWideN, where self.n * acc is rounded.    *)
(***************************************************************************)
NoCall == [op |-> "none", k |-> Zero, t |-> 0, acc |-> Zero]

Self == [n |-> self_n, pb |-> self_pb]

Init ==
    /\ n_in = 0
    /\ arg = MkArg("NoneType", Zero, << >>, NoItems)
    /\ status = "new"
    /\ self_n = 0
    /\ self_pb = NoPoiBin
    /\ call = NoCall
    /\ result = Zero
    /\ cdf_calls = {}
    /\ reused = FALSE

Construct(n, a) ==
    /\ status = "new"
    /\ LET r == convert_arg_to_ps(n, a)
       IN  /\ status' = r.status
           /\ self_n' = IF r.status = "ok" THEN n ELSE 0
           /\ self_pb' = IF r.status = "ok" THEN PoiBin(r.ps) ELSE NoPoiBin
    /\ n_in' = n
    /\ arg' = a
    /\ UNCHANGED <<call, result, cdf_calls, reused>>

Query(c, r) ==
    /\ status = "ok"
    /\ call' = c
    /\ result' = r.ret
    /\ cdf_calls' = r.cdf
    /\ reused' = (call.op # "none")
    /\ UNCHANGED <<n_in, arg, status, self_n, self_pb>>

CallPmf(k, t) ==
    Query([op |-> "pmf", k |-> k, t |-> t, acc |-> Zero], pmf(Self, k, t))

CallF(k, t) ==
    Query([op |-> "F", k |-> k, t |-> t, acc |-> Zero], F(Self, k, t))

\* Variant: the loop counts self.n down.
CallExpectation_consumes_n(t) ==
    /\ status = "ok"
    /\ call' = [op |-> "expectation", k |-> Zero, t |-> t, acc |-> Zero]
    /\ result' = expectation(Self, t).ret
    /\ cdf_calls' = expectation(Self, t).cdf
    /\ reused' = (call.op # "none")
    /\ self_n' = 0
    /\ UNCHANGED <<n_in, arg, status, self_pb>>

CallExpectation(t) ==
    Query([op |-> "expectation", k |-> Zero, t |-> t, acc |-> Zero],
          expectation(Self, t))

CallMaxRandomBaseline(t) ==
    Query([op |-> "max_random_baseline", k |-> Zero, t |-> t, acc |-> Zero],
          max_random_baseline(Self, t))

CallPValue(acc, t) ==
    Query([op |-> "p_value", k |-> Zero, t |-> t, acc |-> acc],
          p_value(Self, acc, t))

Fresh == call.op = "none"

New == status = "new"

Built == status = "ok"

Next ==
    \/ New /\ \E n \in Ns, a \in Args : Construct(n, a)
    \/ Built /\ Fresh /\ \E k \in Ks, t \in Ts : CallPmf(k, t)
    \/ Built /\ Fresh /\ \E k \in Ks, t \in Ts : CallF(k, t)
    \/ Built /\ Fresh /\ \E t \in Ts : CallExpectation(t)
    \/ Built /\ Fresh /\ \E t \in Ts : CallMaxRandomBaseline(t)
    \/ Built /\ Fresh /\ \E acc \in Accs, t \in Ts : CallPValue(acc, t)

Spec == Init /\ [][Next]_vars

NextReuse ==
    \/ New /\ \E n \in Ns, a \in ReuseArgs : Construct(n, a)
    \/ Built /\ \E k \in Ks, t \in Ts : CallPmf(k, t)
    \/ Built /\ \E k \in Ks, t \in Ts : CallF(k, t)
    \/ Built /\ \E t \in Ts : CallExpectation(t)
    \/ Built /\ \E t \in Ts : CallMaxRandomBaseline(t)
    \/ Built /\ \E acc \in Accs, t \in Ts : CallPValue(acc, t)

SpecReuse == Init /\ [][NextReuse]_vars

Wide == self_n > MaxN

NextPValue ==
    \/ New /\ \E n \in Ns, a \in Args : Construct(n, a)
    \/ New /\ \E n \in WideNs : \E a \in StepArgs(n) : Construct(n, a)
    \/ Built /\ Fresh /\ ~Wide /\ \E acc \in Accs, t \in Ts : CallPValue(acc, t)
    \/ Built /\ Fresh /\ Wide /\ \E acc \in StepAccs(self_n) : CallPValue(acc, MaxT)

SpecPValue == Init /\ [][NextPValue]_vars

TypeOK ==
    /\ status \in {"new", "ok", "AssertionError", "SystemExit"}
    /\ self_n \in 0..MaxWideN
    /\ call.op = "none" => ~reused

(***************************************************************************)
(* Properties.                                                             *)
(***************************************************************************)
Ps == self_pb.ps

WellFormed == Built /\ Len(Ps) = self_n

IsInt(q) == q[2] = 1

InvN == Norm(1, self_n)

RECURSIVE SumPmf(_, _, _)
SumPmf(self, k, t) ==
    IF k < 0 THEN Zero
    ELSE Add(SumPmf(self, k - 1, t), pmf(self, Rat(k), t).ret)

RECURSIVE SumCounts(_)
SumCounts(items) ==
    IF Len(items) = 0 THEN 0 ELSE items[1][2] + SumCounts(Tail(items))

\* C1: on an Engine whose ps has n entries F(n, t) is exactly 1; F(k, t) is 0
\* whenever floor(k) < 0, fractional k included, and F never passes a negative
\* k to the model's cdf.
C1_FBoundary ==
    call.op = "F" =>
        /\ Floor(call.k) < 0 => result = Zero
        /\ \A j \in cdf_calls : j >= 0
        /\ (WellFormed /\ call.k = Rat(self_n)) => result = One

C1_Witness ==
    /\ call.op = "F"
    /\ WellFormed
    /\ call.k = Rat(self_n)
    /\ self_n >= 2
    /\ Ps[1] # Ps[2]
    /\ call.t = MaxT
    /\ result = One

\* C2: for integer k in 0..n, F(k, t) is the sum of pmf(j, t) over j = 0..k;
\* on an Engine whose ps has n entries the pmf values over 0..n sum to 1.
C2_FIsCumulativePmf ==
    (call.op = "F" /\ IsInt(call.k) /\ Floor(call.k) \in 0..self_n) =>
        /\ result = SumPmf(Self, Floor(call.k), call.t)
        /\ WellFormed => SumPmf(Self, self_n, call.t) = One

C2_Witness ==
    /\ call.op = "F"
    /\ WellFormed
    /\ call.k = Rat(1)
    /\ self_n = MaxN
    /\ call.t = MaxT
    /\ Less(Zero, pmf(Self, Zero, call.t).ret)
    /\ Less(pmf(Self, Zero, call.t).ret, result)
    /\ Less(result, One)

\* The integers j in 0..n with j >= n * acc, acc being the double a / b:
\* j * b > n * a puts j above n * acc and j * b < n * a below it, the gap
\* 1 / (n * b) being wider than the rounding of a / b; j * b = n * a leaves j
\* at or above n * acc unless a / b was rounded up.
AtLeastNAcc(n, acc, j) ==
    \/ n * acc[1] < j * acc[2]
    \/ n * acc[1] = j * acc[2] /\ FlDiv(Abs(acc[1]), acc[2]).dir # 1

RECURSIVE SumPmfFrom(_, _, _, _)
SumPmfFrom(self, acc, t, j) ==
    IF j < 0 THEN Zero
    ELSE Add(SumPmfFrom(self, acc, t, j - 1),
             IF AtLeastNAcc(self.n, acc, j) THEN pmf(self, Rat(j), t).ret
             ELSE Zero)

\* C3: for acc in [0, 1], p_value(acc, t) is the sum of pmf(j, t) over the
\* integers j in 0..n with j >= n * acc.
C3_PValueIsUpperTail ==
    (call.op = "p_value" /\ WellFormed
        /\ Leq(Zero, call.acc) /\ Leq(call.acc, One)) =>
        result = SumPmfFrom(Self, call.acc, call.t, self_n)

InvNProductBelowOne(n) == FlFloor(FlMulInt(n, FlDiv(1, n))) = 0

FlLess(x, y) ==
    IF Len(y.bits) = 0 THEN FALSE
    ELSE IF Len(x.bits) = 0 THEN TRUE
    ELSE IF Len(x.bits) + x.exp # Len(y.bits) + y.exp
    THEN Len(x.bits) + x.exp < Len(y.bits) + y.exp
    ELSE LET bx(i) == IF i <= Len(x.bits) THEN x.bits[i] ELSE 0
             by(i) == IF i <= Len(y.bits) THEN y.bits[i] ELSE 0
         IN  \E i \in 1..Prec :
                 bx(i) < by(i) /\ \A j \in 1..(i - 1) : bx(j) = by(j)

C6_FMonotone ==
    call.op = "F" =>
        /\ Leq(result, F(Self, Add(call.k, One), call.t).ret)
        /\ call.t + 1 \in Ts => Leq(F(Self, call.k, call.t + 1).ret, result)

C6_Witness ==
    /\ call.op = "F"
    /\ call.k = Zero
    /\ call.t + 1 \in Ts
    /\ Less(F(Self, Rat(-1), call.t).ret, F(Self, call.k, call.t + 1).ret)
    /\ Less(F(Self, call.k, call.t + 1).ret, result)
    /\ Less(result, F(Self, Rat(1), call.t).ret)

\* C7: construction from a mapping fails with the configuration error
\* whenever the example counts sum to a value other than n.
C7_MappingMismatchFails ==
    (~New /\ arg.tag = "dict" /\ SumCounts(arg.items) # n_in) =>
        status = "AssertionError"

\* C8: every constructed Engine holds a model built from exactly n
\* probabilities.
C8_PsHasLengthN ==
    Built => Len(Ps) = self_n

\* C9 as stated: a scalar probability, integer or floating-point, yields n
\* copies of it; the unrecognized-specification error is raised exactly for an
\* arg that is none of scalar, sequence or mapping.
C9_ScalarDispatch ==
    ~New =>
        /\ arg.tag \in {"float", "int"} =>
              (Built /\ self_n = n_in /\ Ps = Repeat(arg.p, n_in))
        /\ status = "SystemExit" <=>
              arg.tag \notin {"float", "int", "list", "tuple", "dict"}

\* C9 amended: a floating-point scalar yields n copies of it; the
\* unrecognized-specification error is raised exactly for an arg that is not
\* a float, a list or a dict, an integer 0 or 1 included.
C9_FloatDispatch ==
    ~New =>
        /\ arg.tag = "float" =>
              (Built /\ self_n = n_in /\ Ps = Repeat(arg.p, n_in))
        /\ status = "SystemExit" <=> arg.tag \notin {"float", "list", "dict"}

C9_Witness ==
    /\ status = "SystemExit"
    /\ arg.tag = "int"
    /\ arg.p = One
    /\ n_in = MaxN

\* C10: a call on a constructed Engine leaves n and the model unchanged, and
\* its result is the one the Engine and the call's own arguments determine,
\* whatever calls came before.
EvalCall(self, c) ==
    CASE c.op = "pmf" -> pmf(self, c.k, c.t)
      [] c.op = "F" -> F(self, c.k, c.t)
      [] c.op = "expectation" -> expectation(self, c.t)
      [] c.op = "max_random_baseline" -> max_random_baseline(self, c.t)
      [] c.op = "p_value" -> p_value(self, c.acc, c.t)

C10_CallsLeaveEngineUnchanged ==
    [][Built => /\ status' = status
                /\ self_n' = self_n
                /\ self_pb' = self_pb
                /\ result' = EvalCall(Self, call').ret]_vars

C10_Witness ==
    /\ reused
    /\ call.op = "max_random_baseline"
    /\ call.t = MaxT
    /\ self_n = 2
    /\ Len(Ps) = 2
    /\ Ps[1] # Ps[2]
    /\ result = EvalCall([n |-> 2, pb |-> PoiBin(Ps)], call).ret
====
